---- MODULE Spec2Model ----
(***************************************************************************)
(* Model of the OllamaGui streaming pipeline: the two QThread workers of   *)
(* workers/ollama_worker.py (OllamaWorker, ModelDownloadWorker), the main   *)
(* window handlers of gui/main_window.py that consume their signals, and    *)
(* the download dialog of gui/dialogs.py.                                   *)
(*                                                                          *)
(* Signals emitted by a worker thread towards a slot of a GUI-thread object *)
(* are queued: each emit posts one event to the GUI thread's event queue,   *)
(* and the GUI thread dispatches posted events one at a time, in the order  *)
(* they were posted.  User input is dispatched by the same loop, in no      *)
(* fixed order relative to the posted events.                               *)
(*                                                                          *)
(* Texts are sequences of characters, so that concatenation is real         *)
(* concatenation.                                                           *)
(***************************************************************************)
EXTENDS Integers, Sequences, FiniteSets, TLC

\* ---------------------------------------------------------------- bounds
\* number of worker objects constructed in one behaviour
MaxWorkers == 2
\* number of lines a server sends on one stream
MaxLines == 2
\* largest total / completed value of a pull line
MaxTotal == 3
\* number of direct stop() calls made on one task by a caller
MaxStopCalls == 2
\* number of download dialogs opened in one behaviour
MaxDialogs == 2
\* number of lines a server sends on the pull stream of a dialog's worker
MaxDialogLines == 1
\* number of sessions created in one behaviour
MaxSessions == 3
\* number of prompts sent in one behaviour of the window with its sessions
MaxSessionSends == 1

Workers == 1..MaxWorkers

\* ---------------------------------------------------------------- texts
Text(s) == <<s>>
EmptyText == <<>>

RECURSIVE Concat(_)
\* concatenation of a sequence of texts
Concat(ts) == IF ts = <<>> THEN <<>> ELSE Head(ts) \o Concat(Tail(ts))

TokenTexts == {EmptyText, Text("a"), Text("b")}
Prompts == {Text("p")}
Statuses == {"pulling", "success"}
ModelNames == {"llama"}

NoPct == -1

\* ---------------------------------------------------------------- lines
\* One line yielded by response.iter_lines(): blank (keep-alive), not JSON,
\* or a JSON object of which only the fields the workers look at are kept.
BlankLine ==
  [kind |-> "blank", hasResp |-> FALSE, resp |-> EmptyText, done |-> FALSE,
   status |-> "", hasTotal |-> FALSE, hasCompleted |-> FALSE,
   total |-> 0, completed |-> 0]

BadLine == [BlankLine EXCEPT !.kind = "bad"]

GenJson(hasResp, resp, done) ==
  [BlankLine EXCEPT !.kind = "json", !.hasResp = hasResp, !.resp = resp,
                    !.done = done]

PullJson(status, hasTotal, hasCompleted, total, completed) ==
  [BlankLine EXCEPT !.kind = "json", !.status = status,
                    !.hasTotal = hasTotal, !.hasCompleted = hasCompleted,
                    !.total = total, !.completed = completed]

\* Lines of a generate stream: a blank line, a malformed line, a token line,
\* the closing line of the server ({"response": "", "done": true}), a closing
\* line that carries a token, a closing line without a response field.
GenLines ==
  {BlankLine, BadLine}
    \cup {GenJson(TRUE, t, FALSE) : t \in TokenTexts \ {EmptyText}}
    \cup {GenJson(TRUE, t, TRUE) : t \in {EmptyText, Text("b")}}
    \cup {GenJson(FALSE, EmptyText, TRUE)}

PullLines ==
  {BlankLine, BadLine}
    \cup {PullJson(s, FALSE, FALSE, 0, 0) : s \in Statuses}
    \cup {PullJson("pulling", TRUE, FALSE, MaxTotal, 0)}
    \cup UNION {{PullJson("pulling", TRUE, TRUE, t, c) : c \in 0..t} :
                   t \in 0..MaxTotal}

\* The dialog only copies a progress text to a label: the pull streams of the
\* dialog's workers are drawn from a subset of PullLines.
DialogPullLines ==
  {BadLine, PullJson("pulling", FALSE, FALSE, 0, 0)}

LinesOf(k, obs) ==
  IF k = "gen" THEN GenLines
  ELSE IF obs = -1 THEN PullLines ELSE DialogPullLines

\* ---------------------------------------------------------------- events
\* The payload of one signal emission.
TokenEv(t) == [type |-> "Token", text |-> t, pct |-> NoPct]
FinishedEv == [type |-> "Finished", text |-> EmptyText, pct |-> NoPct]
ErrorEv(m) == [type |-> "Error", text |-> Text(m), pct |-> NoPct]
\* progress.emit(status) carries pct = NoPct; progress.emit(f"{status}:
\* {percent:.1f}%") carries the printed number in tenths of a percent.
ProgressEv(s, p) == [type |-> "Progress", text |-> Text(s), pct |-> p]

\* FormatTenths that cuts the digits after the first instead of rounding
FormatTenths_Truncate(completed, total) == (1000 * completed) \div total

\* f"{percent:.1f}" of percent = completed / total * 100: the decimal
\* with one fractional digit nearest to the quotient, in tenths.  (A quotient
\* exactly half-way between two tenths needs 16 | total; the tie rule of the
\* float formatting is not modelled beyond "one of the two nearest".)
FormatTenths(completed, total) ==
  (2 * 1000 * completed + total) \div (2 * total)

\* percent = (completed / total * 100) if total > 0 else 0, then formatted
PercentTenths(completed, total) ==
  IF total > 0 THEN FormatTenths(completed, total) ELSE 0

\* ---------------------------------------------------------------- state
VARIABLES
  \* ----- worker objects (OllamaWorker / ModelDownloadWorker)
  nworkers,        \* number of worker objects constructed so far
  wkind,           \* "none" | "gen" | "dl"
  wpc,             \* position of the worker thread in run()
  is_running,      \* the worker's is_running flag
  model_name,      \* ModelDownloadWorker.model_name ("" for OllamaWorker)
  observer,        \* -1: no slot connected; 0: main window; d>0: dialog d
  conn,            \* "none" | "ok" (open) | "refused" | "closed"
  stream,          \* lines iter_lines() has yielded so far
  emitted,         \* events the worker has emitted so far, in order
  stopCalls,       \* number of stop() calls received
  stopAt,          \* Len(emitted) at the first stop() call, -1 if none
  \* ----- GUI thread
  queue,           \* posted events not yet dispatched
  delivered,       \* per worker: events dispatched to a slot so far
  uiPc,            \* "loop" | "wait" | "dlwait" | "closewait" | "closed" | "crashed"
  waitFor,         \* worker the GUI thread is waiting for (0: none)
  \* ----- ChatbotGUI
  worker,          \* self.worker (0: None)
  current_response,
  messages,
  chat_layout,     \* the message bubbles of chat_layout, top to bottom
  input_enabled,   \* input_box enabled and send_btn visible
  stop_visible,    \* stop_btn visible
  chat_sessions,   \* per session: its messages (sid: the order of creation)
  current_session_index,
  chat_list,       \* number of rows of the chat_list widget
  nsessions,       \* number of sessions created so far
  sentIn,          \* per worker: sid of the session current at its send_message
  accAtFinish,     \* per worker: current_response when its Finished was handled
  acked,           \* workers whose cancellation stop_generation has returned from
  \* ----- ModelDownloadDialog
  dlg,             \* the dialog currently shown by open_download_dialog
  ndialogs,        \* number of dialogs constructed so far
  dl_http,         \* HTTP requests issued by the latest start_download itself
  dl_outcome       \* what the latest start_download did

wvars == <<nworkers, wkind, wpc, is_running, model_name, observer, conn,
           stream, emitted, stopCalls, stopAt>>
uvars == <<queue, delivered, uiPc, waitFor>>
gvars == <<worker, current_response, messages, chat_layout, input_enabled,
           stop_visible, chat_sessions, current_session_index, accAtFinish,
           acked, chat_list, nsessions, sentIn>>
lvars == <<chat_list, nsessions, sentIn>>
dvars == <<dlg, ndialogs, dl_http, dl_outcome>>
vars == <<wvars, uvars, gvars, dvars>>

NoAcc == <<"none">>

\* ModelDownloadDialog.__init__ / setup_ui: the fields of a fresh dialog
NewDialog(id, open) ==
  [id |-> id, open |-> open, worker |-> 0, selected_model |-> "",
   custom_checked |-> FALSE, custom_visible |-> FALSE, custom_text |-> "",
   custom_enabled |-> TRUE, download_enabled |-> FALSE,
   progress_label |-> ProgressEv("", NoPct), success_box |-> FALSE,
   result |-> "none"]

NoDialog == NewDialog(0, FALSE)

\* the session dictionary create_new_session() appends
NewSession(sid) == [sid |-> sid, messages |-> <<>>]

\* ChatbotGUI.__init__ with no saved sessions file: create_new_session()
Init ==
  /\ nworkers = 0
  /\ wkind = [w \in Workers |-> "none"]
  /\ wpc = [w \in Workers |-> "none"]
  /\ is_running = [w \in Workers |-> FALSE]
  /\ model_name = [w \in Workers |-> ""]
  /\ observer = [w \in Workers |-> -1]
  /\ conn = [w \in Workers |-> "none"]
  /\ stream = [w \in Workers |-> <<>>]
  /\ emitted = [w \in Workers |-> <<>>]
  /\ stopCalls = [w \in Workers |-> 0]
  /\ stopAt = [w \in Workers |-> -1]
  /\ queue = <<>>
  /\ delivered = [w \in Workers |-> <<>>]
  /\ uiPc = "loop"
  /\ waitFor = 0
  /\ worker = 0
  /\ current_response = EmptyText
  /\ messages = <<>>
  /\ chat_layout = <<>>
  /\ input_enabled = TRUE
  /\ stop_visible = FALSE
  /\ chat_sessions = << NewSession(1) >>
  /\ current_session_index = 0
  /\ chat_list = 1
  /\ nsessions = 1
  /\ sentIn = [w \in Workers |-> 0]
  /\ accAtFinish = [w \in Workers |-> NoAcc]
  /\ acked = {}
  /\ dlg = NoDialog
  /\ ndialogs = 0
  /\ dl_http = 0
  /\ dl_outcome = "none"

\* ---------------------------------------------------------------- workers
\* the process runs until the main window has closed or Qt has aborted it
ProcessAlive == uiPc \notin {"closed", "crashed"}

\* QThread.isRunning(): from start() until run() has returned
isRunning(w) == wpc[w] \in {"start", "read", "proc", "exit"}

\* signal.emit(ev) on the worker thread: recorded, and posted to the GUI
\* thread when a slot is connected
EmitAll(w, evs) ==
  /\ emitted' = [emitted EXCEPT ![w] = @ \o evs]
  /\ queue' = IF observer[w] >= 0
              THEN queue \o [i \in 1..Len(evs) |-> [src |-> w, ev |-> evs[i]]]
              ELSE queue

\* __init__ of either worker followed by start()
Construct(w, k, name, obs) ==
  /\ nworkers' = w
  /\ wkind' = [wkind EXCEPT ![w] = k]
  /\ wpc' = [wpc EXCEPT ![w] = "start"]
  /\ is_running' = [is_running EXCEPT ![w] = TRUE]
  /\ model_name' = [model_name EXCEPT ![w] = name]
  /\ observer' = [observer EXCEPT ![w] = obs]
  /\ UNCHANGED <<conn, stream, emitted, stopCalls, stopAt>>

\* StopFlag that flips the flag instead of clearing it
StopFlag_Toggle(w) ==
  /\ is_running' = [is_running EXCEPT ![w] = ~@]
  /\ stopCalls' = [stopCalls EXCEPT ![w] = @ + 1]
  /\ stopAt' = [stopAt EXCEPT ![w] = IF @ = -1 THEN Len(emitted[w]) ELSE @]

\* `self.worker = <new worker>` drops the reference to the worker held so
\* far while its run() has not returned.  Nothing in the code says what
\* becomes of that thread: Qt aborts the process when a running QThread is
\* destroyed, and the thread goes on, its slots still connected, for as long
\* as its own run() call keeps the object alive.
DropsRunningThread(old) == old # 0 /\ isRunning(old)

\* stop(): self.is_running = False
StopFlag(w) ==
  /\ is_running' = [is_running EXCEPT ![w] = FALSE]
  /\ stopCalls' = [stopCalls EXCEPT ![w] = @ + 1]
  /\ stopAt' = [stopAt EXCEPT ![w] = IF @ = -1 THEN Len(emitted[w]) ELSE @]

\* WPost that goes on to read the response after a refused connection
WPost_IgnoreRefused(w) ==
  /\ ProcessAlive
  /\ wpc[w] = "start"
  /\ \E c \in {"ok", "refused"} :
       /\ conn' = [conn EXCEPT ![w] = c]
       /\ wpc' = [wpc EXCEPT ![w] = "read"]
       /\ IF c = "ok"
          THEN UNCHANGED <<emitted, queue>>
          ELSE EmitAll(w, <<ErrorEv("ConnectionRefused")>>)
  /\ UNCHANGED <<nworkers, wkind, is_running, model_name, observer, stream,
                 stopCalls, stopAt>>
  /\ UNCHANGED <<delivered, uiPc, waitFor, gvars, dvars>>

\* run(): requests.post(url, json=payload, stream=True)
WPost(w) ==
  /\ ProcessAlive
  /\ wpc[w] = "start"
  /\ \E c \in {"ok", "refused"} :
       /\ conn' = [conn EXCEPT ![w] = c]
       /\ IF c = "ok"
          THEN /\ wpc' = [wpc EXCEPT ![w] = "read"]
               /\ UNCHANGED <<emitted, queue>>
          ELSE /\ wpc' = [wpc EXCEPT ![w] = "exit"]
               /\ EmitAll(w, <<ErrorEv("ConnectionRefused")>>)
  /\ UNCHANGED <<nworkers, wkind, is_running, model_name, observer, stream,
                 stopCalls, stopAt>>
  /\ UNCHANGED <<delivered, uiPc, waitFor, gvars, dvars>>

\* WRead that hands a blank line to json.loads() like any other line
WRead_DecodesBlank(w) ==
  /\ ProcessAlive
  /\ wpc[w] = "read"
  /\ \/ /\ Len(stream[w]) < (IF observer[w] > 0 THEN MaxDialogLines
                                                ELSE MaxLines)
        /\ \E line \in LinesOf(wkind[w], observer[w]) :
             /\ stream' = [stream EXCEPT ![w] = Append(@, line)]
             /\ IF ~is_running[w]
                THEN /\ wpc' = [wpc EXCEPT ![w] = "exit"]
                     /\ EmitAll(w, <<FinishedEv>>)
                ELSE /\ wpc' = [wpc EXCEPT ![w] = "proc"]
                     /\ UNCHANGED <<emitted, queue>>
             /\ UNCHANGED conn
     \/ /\ wpc' = [wpc EXCEPT ![w] = "exit"]
        /\ conn' = [conn EXCEPT ![w] = "closed"]
        /\ EmitAll(w, <<FinishedEv>>)
        /\ UNCHANGED stream
     \/ /\ wpc' = [wpc EXCEPT ![w] = "exit"]
        /\ conn' = [conn EXCEPT ![w] = "closed"]
        /\ EmitAll(w, <<ErrorEv("TransportError")>>)
        /\ UNCHANGED stream
  /\ UNCHANGED <<nworkers, wkind, is_running, model_name, observer,
                 stopCalls, stopAt>>
  /\ UNCHANGED <<delivered, uiPc, waitFor, gvars, dvars>>

\* WRead without the test `if not self.is_running`
WRead_IgnoresFlag(w) ==
  /\ ProcessAlive
  /\ wpc[w] = "read"
  /\ \/ /\ Len(stream[w]) < (IF observer[w] > 0 THEN MaxDialogLines
                                                ELSE MaxLines)
        /\ \E line \in LinesOf(wkind[w], observer[w]) :
             /\ stream' = [stream EXCEPT ![w] = Append(@, line)]
             /\ wpc' = [wpc EXCEPT ![w] =
                          IF line.kind = "blank" THEN "read" ELSE "proc"]
             /\ UNCHANGED <<emitted, queue>>
             /\ UNCHANGED conn
     \/ /\ wpc' = [wpc EXCEPT ![w] = "exit"]
        /\ conn' = [conn EXCEPT ![w] = "closed"]
        /\ EmitAll(w, <<FinishedEv>>)
        /\ UNCHANGED stream
     \/ /\ wpc' = [wpc EXCEPT ![w] = "exit"]
        /\ conn' = [conn EXCEPT ![w] = "closed"]
        /\ EmitAll(w, <<ErrorEv("TransportError")>>)
        /\ UNCHANGED stream
  /\ UNCHANGED <<nworkers, wkind, is_running, model_name, observer,
                 stopCalls, stopAt>>
  /\ UNCHANGED <<delivered, uiPc, waitFor, gvars, dvars>>

\* WRead that goes on to finished.emit() after iter_lines() has raised
WRead_FinishAfterFault(w) ==
  /\ ProcessAlive
  /\ wpc[w] = "read"
  /\ \/ /\ Len(stream[w]) < (IF observer[w] > 0 THEN MaxDialogLines
                                                ELSE MaxLines)
        /\ \E line \in LinesOf(wkind[w], observer[w]) :
             /\ stream' = [stream EXCEPT ![w] = Append(@, line)]
             /\ IF ~is_running[w]
                THEN /\ wpc' = [wpc EXCEPT ![w] = "exit"]
                     /\ EmitAll(w, <<FinishedEv>>)
                ELSE /\ wpc' = [wpc EXCEPT ![w] =
                                  IF line.kind = "blank" THEN "read" ELSE "proc"]
                     /\ UNCHANGED <<emitted, queue>>
             /\ UNCHANGED conn
     \/ /\ wpc' = [wpc EXCEPT ![w] = "exit"]
        /\ conn' = [conn EXCEPT ![w] = "closed"]
        /\ EmitAll(w, <<FinishedEv>>)
        /\ UNCHANGED stream
     \/ /\ wpc' = [wpc EXCEPT ![w] = "exit"]
        /\ conn' = [conn EXCEPT ![w] = "closed"]
        /\ EmitAll(w, <<ErrorEv("TransportError"), FinishedEv>>)
        /\ UNCHANGED stream
  /\ UNCHANGED <<nworkers, wkind, is_running, model_name, observer,
                 stopCalls, stopAt>>
  /\ UNCHANGED <<delivered, uiPc, waitFor, gvars, dvars>>

\* run(): one turn of `for line in response.iter_lines()` up to and
\* including the tests `if not self.is_running` and `if line`
WRead(w) ==
  /\ ProcessAlive
  /\ wpc[w] = "read"
  /\ \/ \* the server sends a line
        /\ Len(stream[w]) < (IF observer[w] > 0 THEN MaxDialogLines
                                                ELSE MaxLines)
        /\ \E line \in LinesOf(wkind[w], observer[w]) :
             /\ stream' = [stream EXCEPT ![w] = Append(@, line)]
             /\ IF ~is_running[w]
                THEN /\ wpc' = [wpc EXCEPT ![w] = "exit"]
                     /\ EmitAll(w, <<FinishedEv>>)
                ELSE /\ wpc' = [wpc EXCEPT ![w] =
                                  IF line.kind = "blank" THEN "read" ELSE "proc"]
                     /\ UNCHANGED <<emitted, queue>>
             /\ UNCHANGED conn
     \/ \* the server closes the stream: the body is exhausted, the
        \* connection is released, and the loop ends
        /\ wpc' = [wpc EXCEPT ![w] = "exit"]
        /\ conn' = [conn EXCEPT ![w] = "closed"]
        /\ EmitAll(w, <<FinishedEv>>)
        /\ UNCHANGED stream
     \/ \* the transport fails: iter_lines() raises
        /\ wpc' = [wpc EXCEPT ![w] = "exit"]
        /\ conn' = [conn EXCEPT ![w] = "closed"]
        /\ EmitAll(w, <<ErrorEv("TransportError")>>)
        /\ UNCHANGED stream
  /\ UNCHANGED <<nworkers, wkind, is_running, model_name, observer,
                 stopCalls, stopAt>>
  /\ UNCHANGED <<delivered, uiPc, waitFor, gvars, dvars>>

\* GenEvents with the done test ahead of the response test
GenEvents_DoneFirst(line) ==
  (IF line.done THEN <<FinishedEv>> ELSE <<>>)
    \o (IF line.hasResp THEN <<TokenEv(line.resp)>> ELSE <<>>)

\* OllamaWorker.run(): the body of `if line:`
GenEvents(line) ==
  (IF line.hasResp THEN <<TokenEv(line.resp)>> ELSE <<>>)
    \o (IF line.done THEN <<FinishedEv>> ELSE <<>>)

\* PullEvents that leaves the percentage out when total is 0
PullEvents_OmitZero(line) ==
  IF line.hasTotal /\ line.hasCompleted /\ line.total > 0
  THEN <<ProgressEv(line.status, (2000 * line.completed + line.total)
                                   \div (2 * line.total))>>
  ELSE <<ProgressEv(line.status, NoPct)>>

\* ModelDownloadWorker.run(): the body of `if line:`
PullEvents(line) ==
  IF line.hasTotal /\ line.hasCompleted
  THEN <<ProgressEv(line.status, PercentTenths(line.completed, line.total))>>
  ELSE <<ProgressEv(line.status, NoPct)>>

\* WProc that goes back to iter_lines() after a done=true line
WProc_ReadsPastDone(w) ==
  /\ ProcessAlive
  /\ wpc[w] = "proc"
  /\ LET line == stream[w][Len(stream[w])] IN
       IF line.kind = "bad"
       THEN /\ wpc' = [wpc EXCEPT ![w] = "exit"]
            /\ EmitAll(w, <<ErrorEv("ParseError")>>)
       ELSE IF wkind[w] = "gen"
       THEN /\ wpc' = [wpc EXCEPT ![w] = "read"]
            /\ EmitAll(w, GenEvents(line))
       ELSE /\ wpc' = [wpc EXCEPT ![w] = "read"]
            /\ EmitAll(w, PullEvents(line))
  /\ UNCHANGED <<nworkers, wkind, is_running, model_name, observer, conn,
                 stream, stopCalls, stopAt>>
  /\ UNCHANGED <<delivered, uiPc, waitFor, gvars, dvars>>

\* WProc that drops a line json.loads() rejects and reads on
WProc_SkipsBadLine(w) ==
  /\ ProcessAlive
  /\ wpc[w] = "proc"
  /\ LET line == stream[w][Len(stream[w])] IN
       IF line.kind = "bad"
       THEN /\ wpc' = [wpc EXCEPT ![w] = "read"]
            /\ UNCHANGED <<emitted, queue>>
       ELSE IF wkind[w] = "gen"
       THEN /\ wpc' = [wpc EXCEPT ![w] = IF line.done THEN "exit" ELSE "read"]
            /\ EmitAll(w, GenEvents(line))
       ELSE /\ wpc' = [wpc EXCEPT ![w] = "read"]
            /\ EmitAll(w, PullEvents(line))
  /\ UNCHANGED <<nworkers, wkind, is_running, model_name, observer, conn,
                 stream, stopCalls, stopAt>>
  /\ UNCHANGED <<delivered, uiPc, waitFor, gvars, dvars>>

\* WProc that ends a pull at the status success instead of the end of the stream
WProc_CompletesOnSuccess(w) ==
  /\ ProcessAlive
  /\ wpc[w] = "proc"
  /\ LET line == stream[w][Len(stream[w])] IN
       IF line.kind = "bad"
       THEN /\ wpc' = [wpc EXCEPT ![w] = "exit"]
            /\ EmitAll(w, <<ErrorEv("ParseError")>>)
       ELSE IF wkind[w] = "gen"
       THEN /\ wpc' = [wpc EXCEPT ![w] = IF line.done THEN "exit" ELSE "read"]
            /\ EmitAll(w, GenEvents(line))
       ELSE /\ wpc' = [wpc EXCEPT ![w] =
                         IF line.status = "success" THEN "exit" ELSE "read"]
            /\ EmitAll(w, PullEvents(line)
                            \o (IF line.status = "success"
                                THEN <<FinishedEv>> ELSE <<>>))
  /\ UNCHANGED <<nworkers, wkind, is_running, model_name, observer, conn,
                 stream, stopCalls, stopAt>>
  /\ UNCHANGED <<delivered, uiPc, waitFor, gvars, dvars>>

\* run(): json.loads(line) and what follows it for one non-blank line
WProc(w) ==
  /\ ProcessAlive
  /\ wpc[w] = "proc"
  /\ LET line == stream[w][Len(stream[w])] IN
       IF line.kind = "bad"
       THEN /\ wpc' = [wpc EXCEPT ![w] = "exit"]
            /\ EmitAll(w, <<ErrorEv("ParseError")>>)
       ELSE IF wkind[w] = "gen"
       THEN /\ wpc' = [wpc EXCEPT ![w] = IF line.done THEN "exit" ELSE "read"]
            /\ EmitAll(w, GenEvents(line))
       ELSE /\ wpc' = [wpc EXCEPT ![w] = "read"]
            /\ EmitAll(w, PullEvents(line))
  /\ UNCHANGED <<nworkers, wkind, is_running, model_name, observer, conn,
                 stream, stopCalls, stopAt>>
  /\ UNCHANGED <<delivered, uiPc, waitFor, gvars, dvars>>

\* run() returns: the thread has finished.  Neither run() closes its
\* response; a connection left open by a break out of the loop or by a parse
\* error goes with the local variable `response` when the frame is dropped.
WExit(w) ==
  /\ ProcessAlive
  /\ wpc[w] = "exit"
  /\ wpc' = [wpc EXCEPT ![w] = "done"]
  /\ conn' = [conn EXCEPT ![w] = IF @ = "ok" THEN "closed" ELSE @]
  /\ UNCHANGED <<nworkers, wkind, is_running, model_name, observer,
                 stream, emitted, stopCalls, stopAt>>
  /\ UNCHANGED <<queue, delivered, uiPc, waitFor, gvars, dvars>>

WorkerStep == \E w \in Workers : WPost(w) \/ WRead(w) \/ WProc(w) \/ WExit(w)

\* ------------------------------------------------- a task driven directly
\* A caller that owns one task object and uses nothing but its interface:
\* construct, start(), stop().  No slot is connected.
TaskStart ==
  /\ nworkers = 0
  /\ \E k \in {"gen", "dl"} :
       \E name \in (IF k = "gen" THEN {""} ELSE ModelNames \cup {""}) :
         Construct(nworkers + 1, k, name, -1)
  /\ UNCHANGED <<queue, delivered, uiPc, waitFor, gvars, dvars>>

TaskStop(w) ==
  /\ wkind[w] # "none"
  /\ stopCalls[w] < MaxStopCalls
  /\ StopFlag(w)
  /\ UNCHANGED <<nworkers, wkind, wpc, model_name, observer, conn, stream,
                 emitted>>
  /\ UNCHANGED <<queue, delivered, uiPc, waitFor, gvars, dvars>>

NextTask == TaskStart \/ (\E w \in Workers : TaskStop(w)) \/ WorkerStep

SpecTask == Init /\ [][NextTask]_vars

\* A started thread is scheduled: the steps of run() that wait for nothing
\* but the processor (decoding a line it holds, returning) are taken.  When
\* the server answers or sends its next line is not up to the program.
SpecTaskFair ==
  SpecTask /\ \A w \in Workers : WF_vars(WProc(w)) /\ WF_vars(WExit(w))

\* ------------------------------------------------------------ ChatbotGUI
UserMsg(text) == [role |-> "user", content |-> text]
AssistantMsg(text) == [role |-> "assistant", content |-> text]
Bubble(text, is_user) == [text |-> text, is_user |-> is_user]

StoppedSuffix == Text(" [Stopped]")
StoppedBubbleSuffix == Text("\n\n[Generation stopped by user]")

\* chat_sessions[current_session_index]['messages'] = self.messages.copy()
SessionsWith(msgs) ==
  IF current_session_index >= 0
  THEN [chat_sessions EXCEPT ![current_session_index + 1].messages = msgs]
  ELSE chat_sessions

\* the layout after update_response / stop_generation replace the trailing
\* assistant bubble (if there is one) by a new bubble
ReplaceLastAssistantBubble(layout, text) ==
  LET kept == IF Len(layout) > 0 /\ ~layout[Len(layout)].is_user
              THEN SubSeq(layout, 1, Len(layout) - 1)
              ELSE layout
  IN Append(kept, Bubble(text, FALSE))

\* send_message(): text is input_box.toPlainText().strip(), hasModel is
\* whether model_selector.currentText() is non-empty
send_message(text, hasModel) ==
  /\ uiPc = "loop"
  /\ input_enabled
  /\ IF text = EmptyText \/ ~hasModel
     THEN UNCHANGED vars
     ELSE /\ LET msgs == Append(messages, UserMsg(text)) IN
               /\ messages' = msgs
               /\ chat_layout' = Append(chat_layout, Bubble(text, TRUE))
               /\ chat_sessions' = SessionsWith(msgs)
          /\ input_enabled' = FALSE
          /\ stop_visible' = TRUE
          /\ current_response' = EmptyText
          /\ \/ /\ DropsRunningThread(worker)
                /\ uiPc' = "crashed"
                /\ UNCHANGED <<worker, wvars, sentIn>>
             \/ /\ nworkers < MaxWorkers
                /\ worker' = nworkers + 1
                /\ Construct(nworkers + 1, "gen", "", 0)
                /\ sentIn' = [sentIn EXCEPT ![nworkers + 1] =
                                chat_sessions[current_session_index + 1].sid]
                /\ UNCHANGED uiPc
          /\ UNCHANGED <<queue, delivered, waitFor, current_session_index,
                         chat_list, nsessions, accAtFinish, acked, dvars>>

\* update_response(token)
update_response(token) ==
  /\ current_response' = current_response \o token
  /\ chat_layout' = ReplaceLastAssistantBubble(chat_layout,
                                               current_response \o token)
  /\ UNCHANGED <<worker, messages, input_enabled, stop_visible, chat_sessions,
                 current_session_index, lvars, acked, accAtFinish>>

\* finish_response without the test that the last message is the user's
finish_response_NoRoleTest(w) ==
  /\ IF current_response # EmptyText
     THEN LET msgs == Append(messages, AssistantMsg(current_response)) IN
            /\ messages' = msgs
            /\ chat_sessions' = SessionsWith(msgs)
     ELSE UNCHANGED <<messages, chat_sessions>>
  /\ accAtFinish' = [accAtFinish EXCEPT ![w] = current_response]
  /\ current_response' = EmptyText
  /\ input_enabled' = TRUE
  /\ stop_visible' = FALSE
  /\ UNCHANGED <<worker, chat_layout, current_session_index, lvars, acked>>

\* finish_response(), handling the finished signal of worker w
finish_response(w) ==
  /\ IF /\ current_response # EmptyText
        /\ Len(messages) > 0
        /\ messages[Len(messages)].role = "user"
     THEN LET msgs == Append(messages, AssistantMsg(current_response)) IN
            /\ messages' = msgs
            /\ chat_sessions' = SessionsWith(msgs)
     ELSE UNCHANGED <<messages, chat_sessions>>
  /\ accAtFinish' = [accAtFinish EXCEPT ![w] = current_response]
  /\ current_response' = EmptyText
  /\ input_enabled' = TRUE
  /\ stop_visible' = FALSE
  /\ UNCHANGED <<worker, chat_layout, current_session_index, lvars, acked>>

\* handle_error that takes the bubble of the partial answer off the display
handle_error_DropPartial ==
  /\ current_response' = EmptyText
  /\ input_enabled' = TRUE
  /\ stop_visible' = FALSE
  /\ chat_layout' = IF Len(chat_layout) > 0
                       /\ ~chat_layout[Len(chat_layout)].is_user
                    THEN SubSeq(chat_layout, 1, Len(chat_layout) - 1)
                    ELSE chat_layout
  /\ UNCHANGED <<worker, messages, chat_sessions, current_session_index,
                 lvars, acked, accAtFinish>>

\* handle_error that leaves the input disabled and the stop button shown
handle_error_KeepsDisabled ==
  /\ current_response' = EmptyText
  /\ UNCHANGED <<input_enabled, stop_visible>>
  /\ UNCHANGED <<worker, messages, chat_layout, chat_sessions,
                 current_session_index, lvars, acked, accAtFinish>>

\* handle_error(error)
handle_error ==
  /\ current_response' = EmptyText
  /\ input_enabled' = TRUE
  /\ stop_visible' = FALSE
  /\ UNCHANGED <<worker, messages, chat_layout, chat_sessions,
                 current_session_index, lvars, acked, accAtFinish>>

\* DeliverWindow that dispatches the newest posted event first
DeliverWindow_Newest ==
  /\ uiPc = "loop"
  /\ queue # <<>>
  /\ LET w == queue[Len(queue)].src
         ev == queue[Len(queue)].ev
     IN /\ observer[w] = 0
        /\ queue' = SubSeq(queue, 1, Len(queue) - 1)
        /\ delivered' = [delivered EXCEPT ![w] = Append(@, ev)]
        /\ CASE ev.type = "Token" -> update_response(ev.text)
             [] ev.type = "Finished" -> finish_response(w)
             [] OTHER -> handle_error
  /\ UNCHANGED <<uiPc, waitFor>>
  /\ UNCHANGED <<wvars, dvars>>

\* The GUI thread dispatches the oldest posted event of a main-window worker
\* to the slot connected in send_message.
DeliverWindow ==
  /\ uiPc = "loop"
  /\ queue # <<>>
  /\ LET w == Head(queue).src
         ev == Head(queue).ev
     IN /\ observer[w] = 0
        /\ queue' = Tail(queue)
        /\ delivered' = [delivered EXCEPT ![w] = Append(@, ev)]
        /\ CASE ev.type = "Token" -> update_response(ev.text)
             [] ev.type = "Finished" -> finish_response(w)
             [] OTHER -> handle_error
  /\ UNCHANGED <<uiPc, waitFor>>
  /\ UNCHANGED <<wvars, dvars>>

\* stop_generation() up to and including self.worker.stop(); the GUI thread
\* then sits in self.worker.wait()
StopGenerationBegin ==
  /\ uiPc = "loop"
  /\ stop_visible
  /\ IF worker # 0 /\ isRunning(worker)
     THEN /\ StopFlag(worker)
          /\ uiPc' = "wait"
          /\ waitFor' = worker
          /\ UNCHANGED <<nworkers, wkind, wpc, model_name, observer, conn,
                         stream, emitted>>
          /\ UNCHANGED <<queue, delivered, gvars, dvars>>
     ELSE UNCHANGED vars

\* stop_generation() from the return of self.worker.wait() to its end
StopGenerationEnd ==
  /\ uiPc = "wait"
  /\ wpc[waitFor] = "done"
  /\ IF /\ current_response # EmptyText
        /\ Len(messages) > 0
        /\ messages[Len(messages)].role = "user"
     THEN LET msgs == Append(messages,
                             AssistantMsg(current_response \o StoppedSuffix))
          IN /\ messages' = msgs
             /\ chat_sessions' = SessionsWith(msgs)
             /\ chat_layout' = ReplaceLastAssistantBubble(chat_layout,
                                 current_response \o StoppedBubbleSuffix)
     ELSE UNCHANGED <<messages, chat_sessions, chat_layout>>
  /\ current_response' = EmptyText
  /\ input_enabled' = TRUE
  /\ stop_visible' = FALSE
  /\ acked' = acked \cup {waitFor}
  /\ uiPc' = "loop"
  /\ waitFor' = 0
  /\ UNCHANGED <<worker, current_session_index, lvars, accAtFinish>>
  /\ UNCHANGED <<wvars, queue, delivered, dvars>>

\* closeEvent() up to self.worker.wait(1000)
CloseEventBegin ==
  /\ uiPc = "loop"
  /\ IF worker # 0 /\ isRunning(worker)
     THEN /\ StopFlag(worker)
          /\ uiPc' = "closewait"
          /\ waitFor' = worker
     ELSE /\ uiPc' = "closed"
          /\ UNCHANGED <<is_running, stopCalls, stopAt, waitFor>>
  /\ UNCHANGED <<nworkers, wkind, wpc, model_name, observer, conn, stream,
                 emitted>>
  /\ UNCHANGED <<queue, delivered, gvars, dvars>>

\* closeEvent(): wait(1000) returns, because the thread finished or because
\* one second has passed; the window closes and the application ends
CloseEventEnd ==
  /\ uiPc = "closewait"
  /\ uiPc' = "closed"
  /\ waitFor' = 0
  /\ UNCHANGED <<wvars, queue, delivered, gvars, dvars>>

WindowStep ==
  \/ \E text \in Prompts \cup {EmptyText}, hasModel \in BOOLEAN :
       send_message(text, hasModel)
  \/ DeliverWindow
  \/ StopGenerationBegin
  \/ StopGenerationEnd
  \/ CloseEventBegin
  \/ CloseEventEnd

\* The main window and its generation workers; the process ends when the
\* window has closed.
Next == WindowStep \/ WorkerStep

Spec == Init /\ [][Next]_vars

\* ------------------------------------------------- ChatbotGUI: sessions
\* the bubbles load_session() builds for a message list
BubblesOf(msgs) ==
  [i \in 1..Len(msgs) |-> Bubble(msgs[i].content, msgs[i].role = "user")]

RemoveAt(seq, i) == SubSeq(seq, 1, i - 1) \o SubSeq(seq, i + 1, Len(seq))

\* the message lists of the chat files load_chat() is given
FileChats == {<<>>, <<UserMsg(Text("m"))>>}

\* create_new_session(): the New Chat button.  clear_chat_display() empties
\* the display; self.messages is not assigned.
create_new_session ==
  /\ uiPc = "loop"
  /\ nsessions < MaxSessions
  /\ chat_sessions' = Append(chat_sessions, NewSession(nsessions + 1))
  /\ nsessions' = nsessions + 1
  /\ current_session_index' = Len(chat_sessions)
  /\ chat_list' = chat_list + 1
  /\ chat_layout' = <<>>
  /\ UNCHANGED <<worker, current_response, messages, input_enabled,
                 stop_visible, accAtFinish, acked, sentIn>>
  /\ UNCHANGED <<wvars, uvars, dvars>>

\* load_session(item): a click on row i of chat_list (rows count from 1
\* here, index = chat_list.row(item) from 0).  An index past the end of
\* chat_sessions raises IndexError in the slot, which ends the process.
load_session(i) ==
  /\ uiPc = "loop"
  /\ i \in 1..chat_list
  /\ IF i > Len(chat_sessions)
     THEN /\ current_session_index' = i - 1
          /\ uiPc' = "crashed"
          /\ UNCHANGED <<messages, chat_layout>>
     ELSE /\ current_session_index' = i - 1
          /\ messages' = chat_sessions[i].messages
          /\ chat_layout' = BubblesOf(chat_sessions[i].messages)
          /\ UNCHANGED uiPc
  /\ UNCHANGED <<worker, current_response, input_enabled, stop_visible,
                 chat_sessions, accAtFinish, acked, lvars>>
  /\ UNCHANGED <<wvars, queue, delivered, waitFor, dvars>>

\* delete_session that leaves the row of the deleted session in chat_list
delete_session_KeepsRow ==
  /\ uiPc = "loop"
  /\ current_session_index >= 0
  /\ current_session_index < Len(chat_sessions)
  /\ LET rest == RemoveAt(chat_sessions, current_session_index + 1)
         rows == chat_list
     IN IF rest = <<>>
        THEN /\ nsessions < MaxSessions
             /\ chat_sessions' = << NewSession(nsessions + 1) >>
             /\ nsessions' = nsessions + 1
             /\ current_session_index' = 0
             /\ chat_list' = rows + 1
             /\ chat_layout' = <<>>
             /\ UNCHANGED messages
        ELSE LET idx == IF current_session_index - 1 > 0
                        THEN current_session_index - 1 ELSE 0
             IN /\ chat_sessions' = rest
                /\ current_session_index' = idx
                /\ chat_list' = rows
                /\ messages' = rest[idx + 1].messages
                /\ chat_layout' = BubblesOf(rest[idx + 1].messages)
                /\ UNCHANGED nsessions
  /\ UNCHANGED <<worker, current_response, input_enabled, stop_visible,
                 accAtFinish, acked, sentIn>>
  /\ UNCHANGED <<wvars, uvars, dvars>>

\* delete_session(): the Delete entry of the context menu, answered Yes.
\* The current session goes; with none left create_new_session() runs, else
\* the session before it (or the first) is loaded.
delete_session ==
  /\ uiPc = "loop"
  /\ current_session_index >= 0
  /\ current_session_index < Len(chat_sessions)
  /\ LET rest == RemoveAt(chat_sessions, current_session_index + 1)
         rows == IF current_session_index < chat_list
                 THEN chat_list - 1 ELSE chat_list
     IN IF rest = <<>>
        THEN /\ nsessions < MaxSessions
             /\ chat_sessions' = << NewSession(nsessions + 1) >>
             /\ nsessions' = nsessions + 1
             /\ current_session_index' = 0
             /\ chat_list' = rows + 1
             /\ chat_layout' = <<>>
             /\ UNCHANGED messages
        ELSE LET idx == IF current_session_index - 1 > 0
                        THEN current_session_index - 1 ELSE 0
             IN /\ chat_sessions' = rest
                /\ current_session_index' = idx
                /\ chat_list' = rows
                /\ messages' = rest[idx + 1].messages
                /\ chat_layout' = BubblesOf(rest[idx + 1].messages)
                /\ UNCHANGED nsessions
  /\ UNCHANGED <<worker, current_response, input_enabled, stop_visible,
                 accAtFinish, acked, sentIn>>
  /\ UNCHANGED <<wvars, uvars, dvars>>

\* load_chat(): readable says whether the chosen file parses as a chat
\* (json.load and data['messages'] succeed), msgs is its message list.  A
\* file that does not is reported in a box and changes nothing.
load_chat(readable, msgs) ==
  /\ uiPc = "loop"
  /\ IF ~readable
     THEN UNCHANGED vars
     ELSE /\ nsessions < MaxSessions
          /\ chat_sessions' =
               Append(chat_sessions,
                      [sid |-> nsessions + 1, messages |-> msgs])
          /\ nsessions' = nsessions + 1
          /\ current_session_index' = Len(chat_sessions)
          /\ chat_list' = chat_list + 1
          /\ messages' = msgs
          /\ chat_layout' = BubblesOf(msgs)
          /\ UNCHANGED <<worker, current_response, input_enabled,
                         stop_visible, accAtFinish, acked, sentIn>>
          /\ UNCHANGED <<wvars, uvars, dvars>>

\* clear_chat(), answered Yes
clear_chat ==
  /\ uiPc = "loop"
  /\ chat_layout' = <<>>
  /\ messages' = <<>>
  /\ chat_sessions' = SessionsWith(<<>>)
  /\ UNCHANGED <<worker, current_response, input_enabled, stop_visible,
                 current_session_index, accAtFinish, acked, lvars>>
  /\ UNCHANGED <<wvars, uvars, dvars>>

\* delete_message(bubble), answered Yes, for the i-th bubble of the display:
\* the bubble leaves the layout, and the message whose index is the number
\* of bubbles above it leaves self.messages if there is one
delete_message(i) ==
  /\ uiPc = "loop"
  /\ i \in 1..Len(chat_layout)
  /\ chat_layout' = RemoveAt(chat_layout, i)
  /\ LET msgs == IF i - 1 < Len(messages) THEN RemoveAt(messages, i)
                 ELSE messages
     IN /\ messages' = msgs
        /\ chat_sessions' = SessionsWith(msgs)
  /\ UNCHANGED <<worker, current_response, input_enabled, stop_visible,
                 current_session_index, accAtFinish, acked, lvars>>
  /\ UNCHANGED <<wvars, uvars, dvars>>

\* send_message() in a window that is given MaxSessionSends prompts
SessionSend ==
  /\ nworkers < MaxSessionSends
  /\ \E text \in Prompts : send_message(text, TRUE)

SessionStep ==
  \/ SessionSend
  \/ DeliverWindow
  \/ StopGenerationBegin
  \/ StopGenerationEnd
  \/ create_new_session
  \/ \E i \in 1..chat_list : load_session(i)
  \/ delete_session
  \/ \E readable \in BOOLEAN, msgs \in FileChats : load_chat(readable, msgs)
  \/ clear_chat
  \/ \E i \in 1..Len(chat_layout) : delete_message(i)

\* The main window given MaxSessionSends prompts, its sessions left alone.
GenerationStep ==
  \/ SessionSend
  \/ DeliverWindow
  \/ StopGenerationBegin
  \/ StopGenerationEnd
  \/ CloseEventBegin
  \/ CloseEventEnd

NextGeneration == GenerationStep \/ WorkerStep

\* The event loop of the GUI thread keeps dispatching posted events, and
\* wait() returns once the thread has finished (wait(1000) after a second at
\* the latest); a started worker thread is scheduled; and the server goes on:
\* it answers the request, and the stream delivers a line, ends or fails.
SpecGenerationFair ==
  /\ Init
  /\ [][NextGeneration]_vars
  /\ WF_vars(DeliverWindow)
  /\ WF_vars(StopGenerationEnd)
  /\ WF_vars(CloseEventEnd)
  /\ \A w \in Workers :
       /\ WF_vars(WPost(w))
       /\ WF_vars(WRead(w))
       /\ WF_vars(WProc(w))
       /\ WF_vars(WExit(w))

\* The main window with its session list, its generation workers included.
NextSessions == SessionStep \/ WorkerStep

SpecSessions == Init /\ [][NextSessions]_vars

\* --------------------------------------------------- ModelDownloadDialog
CustomTexts == {"", "custom"}

\* str.strip(): a text of blanks only becomes ""
Strip(t) == IF t = " " THEN "" ELSE t

\* open_download_dialog(): ModelDownloadDialog(self) and dialog.exec()
open_download_dialog ==
  /\ uiPc = "loop"
  /\ ~dlg.open
  /\ ndialogs < MaxDialogs
  /\ ndialogs' = ndialogs + 1
  /\ dlg' = NewDialog(ndialogs + 1, TRUE)
  /\ UNCHANGED <<dl_http, dl_outcome, wvars, uvars, gvars>>

\* select_model(model_data): a click on a model card
select_model(m) ==
  /\ uiPc = "loop"
  /\ dlg.open
  /\ dlg' = [dlg EXCEPT !.selected_model = m, !.download_enabled = TRUE,
                        !.custom_visible = FALSE]
  /\ UNCHANGED <<ndialogs, dl_http, dl_outcome, wvars, uvars, gvars>>

\* toggle_custom_input(checked): a click on the checkable toggle button
toggle_custom_input ==
  /\ uiPc = "loop"
  /\ dlg.open
  /\ LET checked == ~dlg.custom_checked IN
       dlg' = IF checked
              THEN [dlg EXCEPT !.custom_checked = TRUE,
                               !.custom_visible = TRUE,
                               !.selected_model = "",
                               !.download_enabled = TRUE]
              ELSE [dlg EXCEPT !.custom_checked = FALSE,
                               !.custom_visible = FALSE,
                               !.download_enabled = (dlg.selected_model # "")]
  /\ UNCHANGED <<ndialogs, dl_http, dl_outcome, wvars, uvars, gvars>>

\* the user edits custom_model_input
EditCustomText(t) ==
  /\ uiPc = "loop"
  /\ dlg.open
  /\ dlg.custom_visible
  /\ dlg.custom_enabled
  /\ dlg.custom_text # t
  /\ dlg' = [dlg EXCEPT !.custom_text = t]
  /\ UNCHANGED <<ndialogs, dl_http, dl_outcome, wvars, uvars, gvars>>

\* the model name start_download() settles on ("" when it has none)
ChosenName ==
  IF dlg.custom_visible /\ Strip(dlg.custom_text) # ""
  THEN Strip(dlg.custom_text)
  ELSE dlg.selected_model

\* start_download(): reach is the outcome of the GET /api/tags it opens with
start_download(reach) ==
  /\ uiPc = "loop"
  /\ dlg.open
  /\ dlg.download_enabled
  /\ dl_http' = 1
  /\ IF reach # "ok"
     THEN /\ dl_outcome' = "unreachable"
          /\ UNCHANGED <<dlg, ndialogs, wvars, uvars, gvars>>
     ELSE IF ChosenName = ""
     THEN /\ dl_outcome' = "rejected_empty"
          /\ UNCHANGED <<dlg, ndialogs, wvars, uvars, gvars>>
     ELSE /\ dl_outcome' = "started"
          /\ \/ /\ DropsRunningThread(dlg.worker)
                /\ uiPc' = "crashed"
                /\ dlg' = [dlg EXCEPT !.download_enabled = FALSE,
                                      !.custom_enabled = FALSE,
                                      !.progress_label =
                                        ProgressEv("Starting download", NoPct)]
                /\ UNCHANGED wvars
             \/ /\ nworkers < MaxWorkers
                /\ dlg' = [dlg EXCEPT !.download_enabled = FALSE,
                                      !.custom_enabled = FALSE,
                                      !.progress_label =
                                        ProgressEv("Starting download", NoPct),
                                      !.worker = nworkers + 1]
                /\ Construct(nworkers + 1, "dl", ChosenName, dlg.id)
                /\ UNCHANGED uiPc
          /\ UNCHANGED <<ndialogs, queue, delivered, waitFor, gvars>>

\* The GUI thread dispatches the oldest posted event of a dialog's worker to
\* the slot connected in start_download: update_progress, download_finished
\* or download_error.  A dialog object that open_download_dialog has since
\* replaced still runs its slots, on widgets nobody sees.
DeliverDialog ==
  /\ uiPc = "loop"
  /\ queue # <<>>
  /\ LET w == Head(queue).src
         ev == Head(queue).ev
     IN /\ observer[w] > 0
        /\ queue' = Tail(queue)
        /\ delivered' = [delivered EXCEPT ![w] = Append(@, ev)]
        /\ IF observer[w] # dlg.id
           THEN UNCHANGED dlg
           ELSE CASE ev.type = "Progress" ->
                       dlg' = [dlg EXCEPT !.progress_label = ev]
                  [] ev.type = "Finished" ->
                       dlg' = [dlg EXCEPT
                                 !.progress_label =
                                    ProgressEv("Download complete!", NoPct),
                                 !.success_box = TRUE,
                                 !.open = FALSE,
                                 !.result = IF dlg.open THEN "accepted" ELSE @]
                  [] OTHER ->
                       dlg' = [dlg EXCEPT
                                 !.progress_label =
                                    [ev EXCEPT !.type = "Progress"],
                                 !.download_enabled = TRUE,
                                 !.custom_enabled = TRUE]
  /\ UNCHANGED <<uiPc, waitFor, ndialogs, dl_http, dl_outcome, wvars, gvars>>

\* cancel_download() up to self.worker.stop(); the GUI thread then sits in
\* self.worker.wait().  Without a running worker it is just self.reject().
CancelDownloadBegin ==
  /\ uiPc = "loop"
  /\ dlg.open
  /\ IF dlg.worker # 0 /\ isRunning(dlg.worker)
     THEN /\ StopFlag(dlg.worker)
          /\ uiPc' = "dlwait"
          /\ waitFor' = dlg.worker
          /\ UNCHANGED dlg
     ELSE /\ dlg' = [dlg EXCEPT !.open = FALSE, !.result = "rejected"]
          /\ UNCHANGED <<is_running, stopCalls, stopAt, uiPc, waitFor>>
  /\ UNCHANGED <<nworkers, wkind, wpc, model_name, observer, conn, stream,
                 emitted>>
  /\ UNCHANGED <<queue, delivered, gvars, ndialogs, dl_http, dl_outcome>>

\* cancel_download(): self.worker.wait() returns, then self.reject()
CancelDownloadEnd ==
  /\ uiPc = "dlwait"
  /\ wpc[waitFor] = "done"
  /\ uiPc' = "loop"
  /\ waitFor' = 0
  /\ dlg' = [dlg EXCEPT !.open = FALSE, !.result = "rejected"]
  /\ UNCHANGED <<wvars, queue, delivered, gvars, ndialogs, dl_http,
                 dl_outcome>>

\* the dialog is dismissed with the window's close button or Escape:
\* QDialog.reject()
DismissDialog ==
  /\ uiPc = "loop"
  /\ dlg.open
  /\ dlg' = [dlg EXCEPT !.open = FALSE, !.result = "rejected"]
  /\ UNCHANGED <<wvars, uvars, gvars, ndialogs, dl_http, dl_outcome>>

DialogStep ==
  \/ open_download_dialog
  \/ \E m \in ModelNames : select_model(m)
  \/ toggle_custom_input
  \/ \E t \in CustomTexts : EditCustomText(t)
  \/ \E reach \in {"ok", "refused", "error"} : start_download(reach)
  \/ DeliverDialog
  \/ CancelDownloadBegin
  \/ CancelDownloadEnd
  \/ DismissDialog

\* The download dialog and its download workers.
NextDownload == DialogStep \/ WorkerStep

SpecDownload == Init /\ [][NextDownload]_vars

\* ================================================================ claims
IsTerminal(ev) == ev.type \in {"Finished", "Error"}
IsPrefix(a, b) == Len(a) <= Len(b) /\ SubSeq(b, 1, Len(a)) = a
TokensOf(evs) == SelectSeq(evs, LAMBDA e : e.type = "Token")
TerminalsOf(evs) == SelectSeq(evs, LAMBDA e : IsTerminal(e))
TextsOf(evs) == [i \in 1..Len(evs) |-> evs[i].text]
NonBlank(st) == SelectSeq(st, LAMBDA l : l.kind # "blank")
\* the response fields of a stream, in stream order
RespTexts(st) ==
  LET withResp == SelectSeq(st, LAMBDA l : l.kind = "json" /\ l.hasResp)
  IN [i \in 1..Len(withResp) |-> withResp[i].resp]
\* a stream without malformed lines whose last line carries done = true
WellFormedDone(st) ==
  /\ st # <<>>
  /\ \A i \in 1..Len(st) : st[i].kind # "bad"
  /\ st[Len(st)].kind = "json"
  /\ st[Len(st)].done
NoCancelIssued == \A v \in Workers : stopCalls[v] = 0
GenWorkers == {w \in Workers : wkind[w] = "gen"}
DlWorkers == {w \in Workers : wkind[w] = "dl"}
\* stop() reached worker w before w had emitted a terminal event
CancelledBeforeTerminal(w) ==
  /\ stopAt[w] >= 0
  /\ TerminalsOf(SubSeq(emitted[w], 1, stopAt[w])) = <<>>
EventsAfterStop(w) == SubSeq(emitted[w], stopAt[w] + 1, Len(emitted[w]))
CancelledEv == [type |-> "Cancelled", text |-> EmptyText, pct |-> NoPct]
\* the k-th non-blank line of w's stream has been through the body of
\* `if line:`
Processed(w, k) == k < Len(NonBlank(stream[w])) \/ wpc[w] # "proc"
HasPercentFields(l) == l.kind = "json" /\ l.hasTotal /\ l.hasCompleted
Abs(n) == IF n < 0 THEN -n ELSE n

\* C1: with no cancel issued, a generation worker whose stream is well
\* formed and ends in a done=true line has emitted one Token per response
\* field, in stream order, followed by exactly one Finished and nothing
\* else; and when finish_response handles that Finished, current_response is
\* the concatenation of the token texts.
C1_TokensThenCompleted ==
  NoCancelIssued =>
    \A w \in GenWorkers :
      (WellFormedDone(stream[w]) /\ wpc[w] \in {"exit", "done"}) =>
        LET texts == RespTexts(stream[w]) IN
          /\ emitted[w] = [i \in 1..Len(texts) |-> TokenEv(texts[i])]
                            \o <<FinishedEv>>
          /\ accAtFinish[w] # NoAcc => accAtFinish[w] = Concat(texts)

C1_Witness ==
  \E w \in GenWorkers :
    /\ NoCancelIssued
    /\ stream[w] = <<GenJson(TRUE, Text("a"), FALSE),
                     GenJson(TRUE, Text("b"), TRUE)>>
    /\ delivered[w] = <<TokenEv(Text("a")), TokenEv(Text("b")), FinishedEv>>
    /\ accAtFinish[w] = <<"a", "b">>

\* C2 (as claimed): a generation worker that is cancelled after start and
\* before a terminal event emits, from the cancel on, exactly one Cancelled
\* event - not Finished, not Error - and nothing else.
C2_ExactlyOneCancelled ==
  \A w \in GenWorkers :
    (CancelledBeforeTerminal(w) /\ wpc[w] = "done") =>
      EventsAfterStop(w) = <<CancelledEv>>

\* C3 (as claimed): once stop_generation has returned for a worker, no Token
\* and no Finished of that worker is dispatched to update_response or
\* finish_response.
C3_NoDeliveryAfterAck ==
  [][\A w \in acked :
       Len(delivered'[w]) > Len(delivered[w]) =>
         delivered'[w][Len(delivered'[w])].type = "Error"]_vars

\* C4: a worker of either kind whose requests.post was refused emits exactly
\* one Error(ConnectionRefused) and no Token, Progress or Finished.
C4_RefusedOneFailed ==
  \A w \in Workers :
    conn[w] = "refused" => emitted[w] = <<ErrorEv("ConnectionRefused")>>

C4_Witness ==
  \E w \in DlWorkers :
    /\ conn[w] = "refused"
    /\ wpc[w] = "done"
    /\ emitted[w] = <<ErrorEv("ConnectionRefused")>>

C6_EmptyNameNoNetwork ==
  \A w \in DlWorkers :
    model_name[w] = "" =>
      /\ conn[w] = "none"
      /\ wpc[w] # "start" => emitted[w] = <<ErrorEv("ValidationError")>>

\* C7 (as claimed): the percent of the Progress event of a line with total
\* > 0 equals completed / total * 100.
C7_PercentExact ==
  \A w \in DlWorkers :
    LET nb == NonBlank(stream[w]) IN
      \A k \in 1..Len(nb) :
        (/\ HasPercentFields(nb[k])
         /\ nb[k].total > 0
         /\ k <= Len(emitted[w])
         /\ emitted[w][k].type = "Progress") =>
           emitted[w][k].pct * nb[k].total = 1000 * nb[k].completed

\* C7 (amended): for every pull line with total and completed and total > 0
\* that the worker processes, it emits one Progress event that carries the
\* line's status text and completed / total * 100 rounded to one decimal.
C7_PercentRounded ==
  \A w \in DlWorkers :
    LET nb == NonBlank(stream[w]) IN
      \A k \in 1..Len(nb) :
        (HasPercentFields(nb[k]) /\ nb[k].total > 0) =>
          /\ (stopCalls[w] = 0 /\ Processed(w, k)) =>
               (k <= Len(emitted[w]) /\ emitted[w][k].type = "Progress")
          /\ (k <= Len(emitted[w]) /\ emitted[w][k].type = "Progress") =>
               /\ emitted[w][k].text = Text(nb[k].status)
               /\ emitted[w][k].pct # NoPct
               /\ 2 * Abs(emitted[w][k].pct * nb[k].total
                            - 1000 * nb[k].completed) <= nb[k].total

C7_Witness ==
  \E w \in DlWorkers :
    /\ stream[w] = <<PullJson("pulling", TRUE, TRUE, 3, 2)>>
    /\ emitted[w] = <<ProgressEv("pulling", 667)>>

\* C8 (as claimed): the Progress event of a line with total = 0 has no
\* percent: it is the event of a line without total / completed.
C8_ZeroTotalOmitsPercent ==
  \A w \in DlWorkers :
    LET nb == NonBlank(stream[w]) IN
      \A k \in 1..Len(nb) :
        (/\ HasPercentFields(nb[k])
         /\ nb[k].total = 0
         /\ k <= Len(emitted[w])
         /\ emitted[w][k].type = "Progress") =>
           emitted[w][k] = ProgressEv(nb[k].status, NoPct)

\* C8 (amended): for a pull line with total = 0 and completed present that
\* the worker processes, it emits one Progress event that carries the status
\* text and the percent 0.0; it is not the event of a line without total /
\* completed.
C8_ZeroTotalZeroPercent ==
  \A w \in DlWorkers :
    LET nb == NonBlank(stream[w]) IN
      \A k \in 1..Len(nb) :
        (HasPercentFields(nb[k]) /\ nb[k].total = 0) =>
          /\ (stopCalls[w] = 0 /\ Processed(w, k)) =>
               (k <= Len(emitted[w]) /\ emitted[w][k].type = "Progress")
          /\ (k <= Len(emitted[w]) /\ emitted[w][k].type = "Progress") =>
               /\ emitted[w][k] = ProgressEv(nb[k].status, 0)
               /\ emitted[w][k] # PullEvents(PullJson(nb[k].status, FALSE,
                                                      FALSE, 0, 0))[1]

C8_Witness ==
  \E w \in DlWorkers :
    /\ stream[w] = <<PullJson("pulling", TRUE, TRUE, 0, 0)>>
    /\ emitted[w] = <<ProgressEv("pulling", 0)>>

\* C9: the events of one worker reach the main window's slots in the order
\* the server produced the lines: what has been dispatched is a prefix of
\* what the worker emitted, the tokens emitted are, one per response field
\* and unmerged, a prefix of the response fields of the stream, and the
\* terminal event is dispatched after every token emitted before it.
C9_DeliveryInOrder ==
  \A w \in GenWorkers :
    /\ IsPrefix(delivered[w], emitted[w])
    /\ IsPrefix(TextsOf(TokensOf(emitted[w])), RespTexts(stream[w]))
    /\ \A i \in 1..Len(delivered[w]) :
         IsTerminal(delivered[w][i]) =>
           /\ i = Len(emitted[w])
           /\ TokensOf(delivered[w]) = TokensOf(emitted[w])

C9_Witness ==
  \E w \in GenWorkers :
    /\ stream[w] = <<GenJson(TRUE, Text("a"), FALSE),
                     GenJson(TRUE, Text("b"), FALSE)>>
    /\ delivered[w] = <<TokenEv(Text("a")), TokenEv(Text("b")), FinishedEv>>

\* C10 (as claimed): the GUI thread is never waiting for a worker thread to
\* make progress.
C10_UiNeverWaitsForWorker ==
  ~(uiPc \in {"wait", "dlwait"} /\ isRunning(waitFor))

\* a worker that has not yet emitted its terminal event
Active(w) == wpc[w] \in {"start", "read", "proc"}
\* a worker with a posted event that has not been dispatched
Pending(w) == \E i \in 1..Len(queue) : queue[i].src = w

\* C11 (as claimed): once stop() has been called on a task whose thread
\* waits in iter_lines() for the next line, its connection gets closed and
\* the thread terminates, whatever the server does.
C11_CancelUnblocksRead ==
  \A w \in Workers :
    (stopCalls[w] > 0 /\ wpc[w] = "read")
      ~> (wpc[w] = "done" /\ conn[w] = "closed")

\* C12 (as claimed): no two generation workers of the window are both in
\* the middle of run(), or both have posted events waiting for the window's
\* slots.
C12_AtMostOneGeneration ==
  \A v, w \in GenWorkers :
    v # w => /\ ~(Active(v) /\ Active(w))
             /\ ~(Pending(v) /\ Pending(w))

\* C13 (as claimed): no two download workers are in the middle of run() at
\* the same time.
C13_AtMostOneDownload ==
  \A v, w \in DlWorkers : v # w => ~(Active(v) /\ Active(w))

LastLine(w) == stream[w][Len(stream[w])]
IsDoneLine(l) == l.kind = "json" /\ l.done
JsonLines(st) == SelectSeq(st, LAMBDA l : l.kind = "json")
HasError(evs) == \E i \in 1..Len(evs) : evs[i].type = "Error"

\* C14 (as claimed): when stop_generation has stopped a worker that had not
\* yet emitted its terminal event, the assistant content it records is the
\* concatenation of the tokens that worker had emitted when the cancellation
\* took effect (at the stop() call or at any later point up to the end of
\* run()), followed by the stop marker.
C14_StoppedContentComplete ==
  [][(/\ uiPc = "wait" /\ uiPc' = "loop"
      /\ CancelledBeforeTerminal(waitFor)
      /\ Len(messages') > Len(messages)) =>
       \E n \in stopAt[waitFor]..Len(emitted[waitFor]) :
         messages'[Len(messages')].content =
           Concat(TextsOf(TokensOf(SubSeq(emitted[waitFor], 1, n))))
             \o StoppedSuffix]_vars

C16_DoneStopsConsuming ==
  [][\A w \in GenWorkers :
       /\ \A i \in 1..(Len(stream'[w]) - 1) : ~IsDoneLine(stream'[w][i])
       /\ (wpc[w] = "proc" /\ wpc'[w] # "proc" /\ IsDoneLine(LastLine(w))) =>
            /\ wpc'[w] = "exit"
            /\ emitted'[w] =
                 emitted[w]
                   \o (IF LastLine(w).hasResp
                       THEN <<TokenEv(LastLine(w).resp)>> ELSE <<>>)
                   \o <<FinishedEv>>]_vars

C16_Witness ==
  \E w \in GenWorkers :
    /\ stream[w] = <<GenJson(TRUE, Text("b"), TRUE)>>
    /\ emitted[w] = <<TokenEv(Text("b")), FinishedEv>>
    /\ wpc[w] = "done"

\* C17: a line that json.loads() rejects makes the worker emit one Error and
\* leave run(); and a worker that has emitted an Error (parse error, transport
\* fault or refused connection) has emitted exactly one terminal event, that
\* Error, as its last event, no Finished, is at the end of run(), and has
\* emitted one Token per response field (one Progress per decoded line) of
\* the lines before the fault and none for the faulty line or after it.
C17_FaultOneFailed ==
  [][\A w \in Workers :
       /\ (wpc[w] = "proc" /\ wpc'[w] # "proc" /\ LastLine(w).kind = "bad") =>
            /\ emitted'[w] = emitted[w] \o <<ErrorEv("ParseError")>>
            /\ wpc'[w] = "exit"
       /\ HasError(emitted'[w]) =>
            /\ TerminalsOf(emitted'[w]) = <<emitted'[w][Len(emitted'[w])]>>
            /\ emitted'[w][Len(emitted'[w])].type = "Error"
            /\ wpc'[w] \in {"exit", "done"}
            /\ wkind'[w] = "gen" =>
                 TextsOf(TokensOf(emitted'[w])) = RespTexts(stream'[w])
            /\ wkind'[w] = "dl" =>
                 Len(emitted'[w]) = Len(JsonLines(stream'[w])) + 1]_vars

C17_Witness ==
  \E w \in GenWorkers :
    /\ stream[w] = <<GenJson(TRUE, Text("a"), FALSE), BadLine>>
    /\ emitted[w] = <<TokenEv(Text("a")), ErrorEv("ParseError")>>
    /\ wpc[w] = "done"

\* C18: whatever the stream holds and wherever stop() falls, a worker emits
\* at most one terminal event (finished or error), nothing after it, and
\* exactly one by the time it leaves run().
C18_OneTerminalLast ==
  \A w \in Workers :
    /\ Len(TerminalsOf(emitted[w])) <= 1
    /\ \A i \in 1..Len(emitted[w]) :
         IsTerminal(emitted[w][i]) => i = Len(emitted[w])
    /\ wpc[w] \in {"exit", "done"} <=> Len(TerminalsOf(emitted[w])) = 1

C18_Witness ==
  \E w \in GenWorkers :
    /\ stream[w] = <<GenJson(TRUE, Text("a"), FALSE),
                     GenJson(TRUE, Text("b"), FALSE)>>
    /\ stopAt[w] = 1
    /\ emitted[w] = <<TokenEv(Text("a")), FinishedEv>>
    /\ wpc[w] = "done"

\* C19 (as claimed): a task that has ended, or that stop() has been called
\* on, does not hold an open connection.
C19_ConnectionReleased ==
  \A w \in Workers :
    (wpc[w] = "done" \/ stopCalls[w] > 0) => conn[w] # "ok"

\* C20: a download worker that is not cancelled and meets no malformed line
\* and no transport fault has emitted exactly one Progress per non-blank line
\* it has decoded, in stream order, and nothing else until the stream ends;
\* at the end of the stream, and not before (not at a status "success"), it
\* emits one Finished after the last Progress.
C20_ProgressThenCompleted ==
  \A w \in DlWorkers :
    (/\ stopCalls[w] = 0
     /\ ~HasError(emitted[w])
     /\ \A i \in 1..Len(stream[w]) : stream[w][i].kind # "bad") =>
       LET nb == NonBlank(stream[w])
           np == IF wpc[w] = "proc" THEN Len(nb) - 1 ELSE Len(nb)
           progress == [i \in 1..np |-> PullEvents(nb[i])[1]]
       IN /\ \A i \in 1..np : Len(PullEvents(nb[i])) = 1
          /\ IF wpc[w] \in {"exit", "done"}
             THEN emitted[w] = progress \o <<FinishedEv>> /\ conn[w] = "closed"
             ELSE emitted[w] = progress

C20_Witness ==
  \E w \in DlWorkers :
    /\ stream[w] = <<PullJson("pulling", TRUE, TRUE, 2, 1),
                     PullJson("success", FALSE, FALSE, 0, 0)>>
    /\ emitted[w] = <<ProgressEv("pulling", 500), ProgressEv("success", NoPct),
                      FinishedEv>>
    /\ stopCalls[w] = 0

\* the events run() emits for a sequence of non-blank lines it has decoded:
\* the events of each line in turn, up to a malformed line or (generation) a
\* done=true line
RECURSIVE LineEvents(_, _)
LineEvents(k, lines) ==
  IF lines = <<>> THEN <<>>
  ELSE LET l == Head(lines) IN
         IF l.kind = "bad" THEN <<ErrorEv("ParseError")>>
         ELSE IF k = "gen"
         THEN GenEvents(l)
                \o (IF l.done THEN <<>> ELSE LineEvents(k, Tail(lines)))
         ELSE PullEvents(l) \o LineEvents(k, Tail(lines))

DataEvents(evs) == SelectSeq(evs, LAMBDA e : e.type \in {"Token", "Progress"})

\* C21: a blank line read while the flag is set produces no event and changes
\* nothing of the task but the position in the stream; and while no stop() is
\* issued the events of a task are those of its stream with the blank lines
\* taken out (followed at most by the terminal event of the end of the
\* stream or of a transport fault).
C21_BlankLineSkipped ==
  [][\A w \in Workers :
       /\ (/\ is_running[w]
           /\ Len(stream'[w]) = Len(stream[w]) + 1
           /\ stream'[w][Len(stream'[w])].kind = "blank") =>
            /\ emitted'[w] = emitted[w]
            /\ wpc'[w] = wpc[w]
            /\ queue' = queue
            /\ conn'[w] = conn[w]
            /\ is_running'[w] = is_running[w]
       /\ (wkind'[w] # "none" /\ stopCalls'[w] = 0) =>
            LET nb == NonBlank(stream'[w])
                decoded == IF wpc'[w] = "proc"
                           THEN SubSeq(nb, 1, Len(nb) - 1) ELSE nb
                evs == LineEvents(wkind'[w], decoded)
            IN /\ IsPrefix(evs, emitted'[w])
               /\ Len(emitted'[w]) <= Len(evs) + 1]_vars

C21_Witness ==
  \E w \in GenWorkers :
    /\ stream[w] = <<BlankLine, GenJson(TRUE, Text("b"), TRUE)>>
    /\ emitted[w] = <<TokenEv(Text("b")), FinishedEv>>
    /\ stopCalls[w] = 0

\* C26 (as claimed): finish_response is invoked for a generation worker only
\* when the worker has decoded a done=true line, the last line of its stream.
C26_FinishedOnlyAfterDone ==
  \A w \in GenWorkers :
    (\E i \in 1..Len(delivered[w]) : delivered[w][i] = FinishedEv) =>
      /\ stream[w] # <<>>
      /\ IsDoneLine(LastLine(w))

\* C27: once stop() has been called, a worker that is not holding a decoded
\* line emits no further Token or Progress and decodes no further line (so a
\* worker stopped before run() has read a line emits none at all), and the
\* events emitted after the first stop() hold at most one Token or Progress:
\* the one of the line that had passed the flag test.
C27_AtMostOneAfterStop ==
  [][\A w \in Workers :
       stopCalls[w] > 0 =>
         /\ wpc[w] # "proc" =>
              /\ DataEvents(emitted'[w]) = DataEvents(emitted[w])
              /\ wpc'[w] # "proc"
         /\ Len(DataEvents(SubSeq(emitted'[w], stopAt[w] + 1,
                                  Len(emitted'[w])))) <= 1]_vars

C27_Witness ==
  \E w \in GenWorkers :
    /\ stream[w] = <<GenJson(TRUE, Text("a"), FALSE),
                     GenJson(TRUE, Text("b"), FALSE)>>
    /\ stopAt[w] = 1
    /\ emitted[w] = <<TokenEv(Text("a")), TokenEv(Text("b")), FinishedEv>>
    /\ wpc[w] = "done"

\* C22 (as claimed): download_finished is never invoked for a download worker
\* that cancel_download has stopped before it had emitted its terminal event.
C22_CancelNeverReportsSuccess ==
  \A w \in DlWorkers :
    CancelledBeforeTerminal(w) =>
      \A i \in 1..Len(delivered[w]) : delivered[w][i] # FinishedEv

\* C28: with the handlers of the generations only (no session or delete
\* step), the message list changes by one append at a time, an assistant
\* message is appended only when the last message is a user message, and so
\* every assistant message stands directly after a user message: no prompt
\* gets two.
C28_OneAssistantPerPrompt ==
  [][/\ messages' # messages =>
          /\ Len(messages') = Len(messages) + 1
          /\ SubSeq(messages', 1, Len(messages)) = messages
          /\ messages'[Len(messages')].role = "assistant" =>
               /\ Len(messages) > 0
               /\ messages[Len(messages)].role = "user"
     /\ \A i \in 1..Len(messages') :
          messages'[i].role = "assistant" =>
            i > 1 /\ messages'[i - 1].role = "user"]_vars

C28_Witness ==
  \E w \in GenWorkers :
    /\ w \in acked
    /\ accAtFinish[w] = Text("b")
    /\ messages = <<UserMsg(Text("p")),
                    AssistantMsg(Text("a") \o StoppedSuffix)>>

\* C23 (as claimed): a step that appends a new, empty session and makes it
\* current (create_new_session, also when it follows the deletion of the
\* last session) leaves the in-memory message list empty.
C23_NewSessionStartsEmpty ==
  [][(/\ nsessions' = nsessions + 1
      /\ chat_sessions'[Len(chat_sessions')] = NewSession(nsessions')
      /\ current_session_index' = Len(chat_sessions') - 1) =>
        messages' = <<>>]_vars

\* C24 (as claimed): the stored messages of a session gain an assistant
\* message only from a generation whose prompt was sent in that session:
\* from the worker whose event is being dispatched, or the one
\* stop_generation has waited for.
C24_ResponseStaysInItsSession ==
  [][\A k \in 1..Len(chat_sessions') : \A j \in 1..Len(chat_sessions) :
       LET new == chat_sessions'[k].messages
           old == chat_sessions[j].messages
       IN (/\ chat_sessions'[k].sid = chat_sessions[j].sid
           /\ Len(new) > Len(old)
           /\ new[Len(new)].role = "assistant") =>
            \E w \in GenWorkers :
              /\ sentIn[w] = chat_sessions[j].sid
              /\ delivered'[w] # delivered[w] \/ waitFor = w]_vars

\* bubble b shows message m: same side, and the text of the message (for a
\* stopped answer the two markers differ by design)
Shows(b, m) ==
  /\ b.is_user = (m.role = "user")
  /\ \/ b.text = m.content
     \/ /\ Len(m.content) > 0
        /\ m.content[Len(m.content)] = StoppedSuffix[1]
        /\ b.text = SubSeq(m.content, 1, Len(m.content) - 1)
                      \o StoppedBubbleSuffix

NoGenerationInFlight ==
  /\ uiPc = "loop"
  /\ input_enabled
  /\ ~stop_visible
  /\ queue = <<>>
  /\ \A w \in GenWorkers : wpc[w] = "done"

\* C25 (as claimed): whenever no generation is in flight the display has one
\* bubble per message, the i-th bubble showing the i-th message.
C25_DisplayAlignedWithMessages ==
  NoGenerationInFlight =>
    /\ Len(chat_layout) = Len(messages)
    /\ \A i \in 1..Len(messages) : Shows(chat_layout[i], messages[i])

====
